---- MODULE Spec2Model ----
(***************************************************************************)
(* Model of refiners' image prompt adapter                                 *)
(* (src/refiners/foundationals/latent_diffusion/image_prompt.py):          *)
(* ImageCrossAttention, CrossAttentionAdapter and IPAdapter.               *)
(*                                                                         *)
(* The host network is a tree of module instances.  A chain node maps to   *)
(* the ordered sequence of its children; every node is an instance         *)
(* identity, so "the same instance" is equality of nodes.  Tensors are     *)
(* abstracted to natural numbers; Err stands for a raised exception.       *)
(***************************************************************************)
EXTENDS Integers, Sequences, FiniteSets, TLC

\* ---------------------------------------------------------------- bounds
MaxLayers == 2      \* attention layers in the host network: 0..MaxLayers
MaxScale == 1       \* scales range over 0..MaxScale
MaxEmbed == 1       \* published conditioning values range over 0..MaxEmbed
MaxInput == 1       \* host inputs (query, text context) range over 0..MaxInput
MaxImages == 2      \* images in one image prompt: 1..MaxImages
MaxPixel == 1       \* an image is one pixel value in 0..MaxPixel (0: all-zero)
MaxWeight == 2      \* per-image weights range over 0..MaxWeight (1 is 1.0)
MaxTokens == 2      \* tokens the image projector produces: 1..MaxTokens
MaxDim == 2         \* feature dimension of a token

Scales == 0..MaxScale
Embeds == 0..MaxEmbed
Inputs == 0..MaxInput

\* Concrete types of the host's attention layers: fl.Attention, exactly
\* fl.SelfAttention, and a subclass of fl.SelfAttention.
AttentionKinds == {"Attention", "SelfAttention", "SelfAttentionSubclass"}
\* A layer holds one ScaledDotProductAttention sub-module, as fl.Attention
\* builds it; a custom attention layer may hold none, or several.
LayerShapes == [kind : AttentionKinds, nsdpa : {1}]
               \cup [kind : {"Attention"}, nsdpa : {0}]
CustomShapes == LayerShapes \cup [kind : {"Attention"}, nsdpa : {2}]

Err == -1           \* a raised exception, as a value
Unset == -1         \* a context key that was never set (None)
ErrOut == <<Err>>

VARIABLES
    layers,         \* the host's attention layers, in traversal order
    sub_adapters,   \* IPAdapter.sub_adapters: adapter index -> target layer index
    tree,           \* chain instance -> sequence of its children
    scale,          \* adapter index -> scale of its ImageCrossAttention's Multiply
    injected,       \* the IPAdapter's own base injection has been applied
    context,        \* side-channel slot (ip_adapter, clip_image_embedding)
    published,      \* the tensor most recently passed to set_clip_image_embedding
    last,           \* the last operation called and what it returned
    fine_grained,   \* IPAdapter.fine_grained
    num_tokens,     \* tokens per image the image projector produces
    prompt,         \* arguments of a compute_clip_image_embedding call
    embedding,      \* what that call returned, once it has
    encoder_runs,   \* the image encoder runs of that call: encoder and input
    image_proj_runs,    \* the inputs the image projector was run on in that call
    weight_bundle,  \* the weights argument of IPAdapter.__init__
    projections,    \* adapter index -> weights of its image key/value projections
    image_proj_state,   \* state dict loaded into the image projector
    built           \* how far IPAdapter.__init__ got: "pending", "ok", "failed"

adapterVars == <<layers, sub_adapters, tree, scale, injected, context, published, last>>
embedVars == <<fine_grained, num_tokens, prompt, embedding, encoder_runs,
              image_proj_runs>>
loadVars == <<weight_bundle, projections, image_proj_state, built>>
vars == <<adapterVars, embedVars, loadVars>>

\* ------------------------------------------------------------ instances
Node(cls, own, idx, sub) == [cls |-> cls, own |-> own, idx |-> idx, sub |-> sub]
NoNode == Node("None", "none", 0, 0)
UNet == Node("UNet", "host", 0, 0)
Attn(i) == Node("Attention", "host", i, 0)
HostDistribute(i) == Node("Distribute", "host", i, 0)
HostSDPA(i, j) == Node("ScaledDotProductAttention", "host", i, j)
HostLinear(i) == Node("Linear", "host", i, 0)
Adapter(a) == Node("CrossAttentionAdapter", "adapter", a, 0)
ICA(a) == Node("ImageCrossAttention", "adapter", a, 0)
ICADistribute(a) == Node("Distribute", "adapter", a, 0)
ICASDPA(a) == Node("ScaledDotProductAttention", "adapter", a, 0)
Multiply(a) == Node("Multiply", "adapter", a, 0)
Sum(a) == Node("Sum", "adapter", a, 0)

\* ------------------------------------------------- fluxion chain primitives
RECURSIVE WalkFrom(_, _, _)
WalkFrom(t, n, k) ==
    IF k > Len(t[n]) THEN <<>>
    ELSE <<t[n][k]>>
         \o (IF t[n][k] \in DOMAIN t THEN WalkFrom(t, t[n][k], 1) ELSE <<>>)
         \o WalkFrom(t, n, k + 1)

\* Chain.walk: the descendants of n, depth first, in order.
Walk(t, n) == IF n \in DOMAIN t THEN WalkFrom(t, n, 1) ELSE <<>>

\* Chain.layers(layer_type)
Layers(t, n, cls) == SelectSeq(Walk(t, n), LAMBDA m : m.cls = cls)

\* Chain.ensure_find(layer_type): the unique descendant of that type; fails
\* (NoNode) when there is none or more than one.
EnsureFind(t, n, cls) ==
    LET found == Layers(t, n, cls)
    IN IF Len(found) = 1 THEN found[1] ELSE NoNode

IsChildOf(t, p, c) == p \in DOMAIN t /\ \E k \in 1..Len(t[p]) : t[p][k] = c

\* Chain.ensure_find_parent(module): the chain of n's subtree (n included)
\* that holds the module as a direct child; fails (NoNode) when there is none.
EnsureFindParent(t, n, c) ==
    LET found == SelectSeq(<<n>> \o Walk(t, n), LAMBDA p : IsChildOf(t, p, c))
    IN IF Len(found) >= 1 THEN found[1] ELSE NoNode

\* Chain.remove(module)
Remove(children, c) == SelectSeq(children, LAMBDA m : m # c)

\* Chain.layer(key, layer_type) with a class-name key: the first child of
\* that class; fails (NoNode) when there is none.
Layer(t, p, cls) ==
    LET found == SelectSeq(t[p], LAMBDA m : m.cls = cls)
    IN IF Len(found) >= 1 THEN found[1] ELSE NoNode

Result(ok, t) == [ok |-> ok, tree |-> t]

\* Chain.replace(old_module, new_module): in place, in the parent that holds
\* old_module, at old_module's position.
Replace(t, n, old, new) ==
    LET p == EnsureFindParent(t, n, old)
    IN IF p = NoNode THEN Result(FALSE, t)
       ELSE Result(TRUE, [t EXCEPT ![p] =
                [k \in 1..Len(@) |-> IF @[k] = old THEN new ELSE @[k]]])

\* A newly constructed chain instance with the given children.
NewChain(t, n, children) ==
    [m \in DOMAIN t \cup {n} |-> IF m = n THEN children ELSE t[m]]

\* An instance nothing refers to any more.
Drop(t, n) == [m \in DOMAIN t \ {n} |-> t[m]]

\* Adapter.inject (base mechanism): the adapter, which wraps its target,
\* takes the target's place in the target's parent.
AdapterInject(t, adapter, target) ==
    LET p == EnsureFindParent(t, UNet, target)
    IN IF p = NoNode THEN Result(TRUE, t) ELSE Replace(t, p, target, adapter)

\* Adapter.eject (base mechanism): the target takes its place back.
AdapterEject(t, adapter, target) ==
    LET p == EnsureFindParent(t, UNet, adapter)
    IN IF p = NoNode THEN Result(TRUE, t) ELSE Replace(t, p, adapter, target)

\* ------------------------------------------------------------ construction
\* fl.Attention: Chain(Distribute(q, k, v projections), SDPA, Linear).
AttentionChildren(ls, i) ==
    <<HostDistribute(i)>>
    \o [j \in 1..ls[i].nsdpa |-> HostSDPA(i, j)]
    \o <<HostLinear(i)>>

\* Mutant: the chain ends at the attention, with no Multiply(scale).
ImageCrossAttentionChildrenNoMultiply(a) == <<ICADistribute(a), ICASDPA(a)>>

\* ImageCrossAttention.__init__: Chain(Distribute(...), SDPA, Multiply(scale)).
ImageCrossAttentionChildren(a) == <<ICADistribute(a), ICASDPA(a), Multiply(a)>>

\* Mutant: not isinstance(attn, fl.SelfAttention), which skips subclasses too.
IsInjectableIsinstance(kind) == kind \notin {"SelfAttention", "SelfAttentionSubclass"}

\* IPAdapter.__init__: type(attn) != fl.SelfAttention
IsInjectable(kind) == kind # "SelfAttention"

\* IPAdapter.__init__: one CrossAttentionAdapter per attention layer of the
\* target that passes the filter, in the target's traversal order.
SubAdapterTargets(ls) == SelectSeq([i \in 1..Len(ls) |-> i],
                                   LAMBDA i : IsInjectable(ls[i].kind))

\* The instances after construction: the host network, and for every
\* sub-adapter its wrapping chain and its ImageCrossAttention.
InitialTree(ls, subs) ==
    [n \in {UNet} \cup {Attn(i) : i \in 1..Len(ls)}
           \cup {Adapter(a) : a \in 1..Len(subs)}
           \cup {ICA(a) : a \in 1..Len(subs)} |->
        CASE n.cls = "UNet" -> [i \in 1..Len(ls) |-> Attn(i)]
          [] n.cls = "Attention" -> AttentionChildren(ls, n.idx)
          [] n.cls = "CrossAttentionAdapter" -> <<Attn(subs[n.idx])>>
          [] OTHER -> ImageCrossAttentionChildren(n.idx)]

Call(op, ok, arg, q, c, out, kreads, vreads) ==
    [op |-> op, ok |-> ok, arg |-> arg, q |-> q, c |-> c, out |-> out,
     kreads |-> kreads, vreads |-> vreads]
Returned(op, ok, arg) == Call(op, ok, arg, 0, 0, <<>>, {}, {})

Hosts(shapes) == UNION {[1..k -> shapes] : k \in 0..MaxLayers}

\* The state after IPAdapter.__init__(target, ..., scale) on a host network
\* whose attention layers have the given shapes.
Constructed(shapes) ==
    /\ layers \in Hosts(shapes)
    /\ sub_adapters = SubAdapterTargets(layers)
    /\ tree = InitialTree(layers, sub_adapters)
    /\ \E s \in Scales : scale = [a \in 1..Len(sub_adapters) |-> s]
    /\ injected = FALSE
    /\ context = Unset
    /\ published = Unset
    /\ last = Returned("init", TRUE, 0)

NoPrompt == [images |-> <<>>, weighted |-> FALSE, weights |-> <<>>,
             concat_batches |-> TRUE]
NoEmbedding == [done |-> FALSE, ok |-> TRUE, value |-> <<>>]

\* weights=None, and the weight of a projection nothing was loaded into.
NoWeights == [given |-> FALSE, items |-> <<>>]
InitialWeight == 0
InitialProjections(subs) ==
    [a \in 1..Len(subs) |-> [key |-> InitialWeight, value |-> InitialWeight]]

\* IPAdapter.__init__ without a weight bundle: nothing is loaded.
Unloaded ==
    /\ weight_bundle = NoWeights
    /\ projections = InitialProjections(sub_adapters)
    /\ image_proj_state = <<>>
    /\ built = "ok"

\* No compute_clip_image_embedding call is under way.
Idle ==
    /\ fine_grained = FALSE
    /\ num_tokens = 1
    /\ prompt = NoPrompt
    /\ embedding = NoEmbedding
    /\ encoder_runs = <<>>
    /\ image_proj_runs = <<>>
    /\ Unloaded

Init == Constructed(LayerShapes) /\ Idle
InitSub == Constructed(CustomShapes) /\ Idle

\* ------------------------------------------------- CrossAttentionAdapter
\* Mutant: the Sum is built as Sum(ImageCrossAttention, sdpa).
CrossAttentionAdapterInjectSwapped(t, subs, a) ==
    LET target == Attn(subs[a])
        sdpa == EnsureFind(t, target, "ScaledDotProductAttention")
    IN IF sdpa = NoNode THEN Result(FALSE, t)
       ELSE LET r == Replace(NewChain(t, Sum(a), <<ICA(a), sdpa>>),
                             target, sdpa, Sum(a))
            IN IF ~r.ok THEN Result(FALSE, t)
               ELSE AdapterInject(r.tree, Adapter(a), target)

\* Mutant: find instead of ensure_find; the first match is taken and a
\* missing match is not an error.
CrossAttentionAdapterInjectUnchecked(t, subs, a) ==
    LET target == Attn(subs[a])
        found == Layers(t, target, "ScaledDotProductAttention")
    IN IF Len(found) = 0 THEN AdapterInject(t, Adapter(a), target)
       ELSE LET r == Replace(NewChain(t, Sum(a), <<found[1], ICA(a)>>),
                             target, found[1], Sum(a))
            IN IF ~r.ok THEN Result(FALSE, t)
               ELSE AdapterInject(r.tree, Adapter(a), target)

\* CrossAttentionAdapter.inject
CrossAttentionAdapterInject(t, subs, a) ==
    LET target == Attn(subs[a])
        sdpa == EnsureFind(t, target, "ScaledDotProductAttention")
    IN IF sdpa = NoNode THEN Result(FALSE, t)
       ELSE LET r == Replace(NewChain(t, Sum(a), <<sdpa, ICA(a)>>),
                             target, sdpa, Sum(a))
            IN IF ~r.ok THEN Result(FALSE, t)
               ELSE AdapterInject(r.tree, Adapter(a), target)

\* Mutant: the ImageCrossAttention is unlinked but the Sum is left in place.
CrossAttentionAdapterEjectKeepSum(t, subs, a) ==
    LET target == Attn(subs[a])
        parent == EnsureFindParent(t, target, ICA(a))
    IN IF parent = NoNode THEN Result(FALSE, t)
       ELSE AdapterEject([t EXCEPT ![parent] = Remove(@, ICA(a))],
                         Adapter(a), target)

\* CrossAttentionAdapter.eject
CrossAttentionAdapterEject(t, subs, a) ==
    LET target == Attn(subs[a])
        parent == EnsureFindParent(t, target, ICA(a))
    IN IF parent = NoNode THEN Result(FALSE, t)
       ELSE LET t1 == [t EXCEPT ![parent] = Remove(@, ICA(a))]
                sdpa == Layer(t1, parent, "ScaledDotProductAttention")
            IN IF sdpa = NoNode THEN Result(FALSE, t1)
               ELSE LET r == Replace(t1, target, parent, sdpa)
                    IN IF ~r.ok THEN Result(FALSE, t1)
                       ELSE AdapterEject(Drop(r.tree, parent), Adapter(a), target)

\* -------------------------------------------------------------- IPAdapter
RECURSIVE InjectFrom(_, _, _)
InjectFrom(t, subs, a) ==
    IF a > Len(subs) THEN Result(TRUE, t)
    ELSE LET r == CrossAttentionAdapterInject(t, subs, a)
         IN IF ~r.ok THEN r ELSE InjectFrom(r.tree, subs, a + 1)

RECURSIVE EjectFrom(_, _, _)
EjectFrom(t, subs, a) ==
    IF a > Len(subs) THEN Result(TRUE, t)
    ELSE LET r == CrossAttentionAdapterEject(t, subs, a)
         IN IF ~r.ok THEN r ELSE EjectFrom(r.tree, subs, a + 1)

\* IPAdapter.inject: every sub-adapter in order, then the base mechanism.
\* An exception raised by a sub-adapter ends the call where it is.
IPAdapterInject ==
    LET r == InjectFrom(tree, sub_adapters, 1)
    IN /\ tree' = r.tree
       /\ injected' = IF r.ok THEN TRUE ELSE injected
       /\ last' = Returned("inject", r.ok, 0)
       /\ UNCHANGED <<layers, sub_adapters, scale, context, published, embedVars, loadVars>>

\* IPAdapter.eject
IPAdapterEject ==
    LET r == EjectFrom(tree, sub_adapters, 1)
    IN /\ tree' = r.tree
       /\ injected' = IF r.ok THEN FALSE ELSE injected
       /\ last' = Returned("eject", r.ok, 0)
       /\ UNCHANGED <<layers, sub_adapters, scale, context, published, embedVars, loadVars>>

\* Mutant: only the first sub-adapter is written.
SetFirstScale(sc, s) == [a \in DOMAIN sc |-> IF a = 1 THEN s ELSE sc[a]]

\* IPAdapter.scale setter: every sub-adapter's scale setter, which sets the
\* scale of its ImageCrossAttention's Multiply.
SetAllScales(sc, s) == [a \in DOMAIN sc |-> s]

IPAdapterSetScale(s) ==
    /\ scale' = SetAllScales(scale, s)
    /\ last' = Returned("set_scale", TRUE, s)
    /\ UNCHANGED <<layers, sub_adapters, tree, injected, context, published, embedVars, loadVars>>

\* IPAdapter.scale getter: sub_adapters[0].scale (IndexError on an empty list)
ScaleOf(subs, sc) == IF Len(subs) = 0 THEN Err ELSE sc[1]

IPAdapterGetScale ==
    /\ last' = Returned("get_scale", ScaleOf(sub_adapters, scale) # Err,
                        ScaleOf(sub_adapters, scale))
    /\ UNCHANGED <<layers, sub_adapters, tree, scale, injected, context, published, embedVars, loadVars>>

\* IPAdapter.set_clip_image_embedding
SetClipImageEmbedding(e) ==
    /\ context' = e
    /\ published' = e
    /\ last' = Returned("set_clip_image_embedding", TRUE, e)
    /\ UNCHANGED <<layers, sub_adapters, tree, scale, injected, embedVars, loadVars>>

\* ----------------------------------------------------------- forward pass
\* The host's own primitives (linear projections, attention), as fixed
\* functions of their inputs.
HostProjection(v) == v + 1
Attention(q, k, v) == q * k + v
OutProjection(v) == v + 2

\* ImageCrossAttention's two fl.Linear instances (image key / image value).
ImageKeyProjection(e) == 2 * e + 1
ImageValueProjection(e) == 3 * e + 2

\* Mutant: the value branch projects its own input, not the side-channel value.
ImageValueInputFromArg(ctx, arg) == arg

\* fl.UseContext(context="ip_adapter", key="clip_image_embedding") in the key
\* branch and in the value branch: the branch's own input is dropped and
\* the side-channel value is read.
ImageKeyInput(ctx, arg) == ctx
ImageValueInput(ctx, arg) == ctx

\* ImageCrossAttention's Distribute(Identity, Chain(UseContext, Linear),
\* Chain(UseContext, Linear)): the query passes through; key and value are
\* projections of the conditioning value.  An unset context raises.
ImageCrossAttentionDistribute(args, ctx) ==
    IF Len(args) # 3 \/ ctx = Unset THEN ErrOut
    ELSE <<args[1],
           ImageKeyProjection(ImageKeyInput(ctx, args[2])),
           ImageValueProjection(ImageValueInput(ctx, args[3]))>>

RECURSIVE Forward(_, _, _, _, _)
RECURSIVE ChainForward(_, _, _, _, _, _)
RECURSIVE SumForward(_, _, _, _, _, _)

\* fl.Chain.forward: each child in order, on the previous child's output.
ChainForward(t, n, k, args, sc, ctx) ==
    IF args = ErrOut THEN ErrOut
    ELSE IF k > Len(t[n]) THEN args
    ELSE ChainForward(t, n, k + 1, Forward(t, t[n][k], args, sc, ctx), sc, ctx)

\* fl.Sum.forward: every child on the same inputs, outputs added.
SumForward(t, n, k, args, sc, ctx) ==
    IF k > Len(t[n]) THEN 0
    ELSE LET out == Forward(t, t[n][k], args, sc, ctx)
             rest == SumForward(t, n, k + 1, args, sc, ctx)
         IN IF out = ErrOut \/ Len(out) # 1 \/ rest = Err THEN Err
            ELSE out[1] + rest

Forward(t, n, args, sc, ctx) ==
    IF args = ErrOut THEN ErrOut
    ELSE CASE n.cls = "Distribute" /\ n.own = "host" ->
                IF Len(args) # 3 THEN ErrOut
                ELSE [k \in 1..3 |-> HostProjection(args[k])]
           [] n.cls = "Distribute" /\ n.own = "adapter" ->
                ImageCrossAttentionDistribute(args, ctx)
           [] n.cls = "ScaledDotProductAttention" ->
                IF Len(args) # 3 THEN ErrOut
                ELSE <<Attention(args[1], args[2], args[3])>>
           [] n.cls = "Linear" ->
                IF Len(args) # 1 THEN ErrOut ELSE <<OutProjection(args[1])>>
           [] n.cls = "Multiply" ->
                IF Len(args) # 1 THEN ErrOut ELSE <<sc[n.idx] * args[1]>>
           [] n.cls = "Sum" ->
                IF Len(t[n]) = 0 THEN ErrOut
                ELSE <<SumForward(t, n, 1, args, sc, ctx)>>
           [] OTHER -> ChainForward(t, n, 1, args, sc, ctx)

\* One run of the host network on query q and text context c: every
\* attention layer of the host, in traversal order, on (q, c, c).  The
\* run's output is the sequence of the layers' outputs.
HostForward(t, q, c, sc, ctx) ==
    LET attns == Layers(t, UNet, "Attention")
    IN [k \in 1..Len(attns) |->
            LET out == Forward(t, attns[k], <<q, c, c>>, sc, ctx)
            IN IF Len(out) = 1 THEN out[1] ELSE Err]

RunFailed(out) == \E k \in 1..Len(out) : out[k] = Err

\* The sub-adapters whose ImageCrossAttention is part of the host network.
InjectedAdapters(t, subs) ==
    LET w == Walk(t, UNet)
    IN {a \in 1..Len(subs) : \E k \in 1..Len(w) : w[k] = ICA(a)}

\* A host-network run.  Every injected ImageCrossAttention reads the
\* side-channel in its key branch and in its value branch.
HostRun(q, c) ==
    LET out == HostForward(tree, q, c, scale, context)
        icas == InjectedAdapters(tree, sub_adapters)
    IN /\ last' = Call("run", ~RunFailed(out), 0, q, c, out,
                       {ImageKeyInput(context, HostProjection(c)) : a \in icas},
                       {ImageValueInput(context, HostProjection(c)) : a \in icas})
       /\ UNCHANGED <<layers, sub_adapters, tree, scale, injected, context, published, embedVars, loadVars>>

Next ==
    \/ IPAdapterInject
    \/ IPAdapterEject
    \/ \E s \in Scales : IPAdapterSetScale(s)
    \/ IPAdapterGetScale
    \/ \E e \in Embeds : SetClipImageEmbedding(e)
    \/ \E q \in Inputs, c \in Inputs : HostRun(q, c)

Spec == Init /\ [][Next]_vars

\* CrossAttentionAdapter.inject, called on one sub-adapter.
SubAdapterInject(a) ==
    LET r == CrossAttentionAdapterInject(tree, sub_adapters, a)
    IN /\ tree' = r.tree
       /\ last' = Returned("sub_inject", r.ok, a)
       /\ UNCHANGED <<layers, sub_adapters, scale, injected, context, published, embedVars, loadVars>>

\* CrossAttentionAdapter.eject, called on one sub-adapter.
SubAdapterEject(a) ==
    LET r == CrossAttentionAdapterEject(tree, sub_adapters, a)
    IN /\ tree' = r.tree
       /\ last' = Returned("sub_eject", r.ok, a)
       /\ UNCHANGED <<layers, sub_adapters, scale, injected, context, published, embedVars, loadVars>>

NextSub ==
    \/ \E a \in 1..Len(sub_adapters) : SubAdapterInject(a)
    \/ \E a \in 1..Len(sub_adapters) : SubAdapterEject(a)

\* The sub-adapters driven one by one.
SpecSub == InitSub /\ [][NextSub]_vars

\* ------------------------------------------------ conditioning embeddings
\* A tensor of shape (batch, tokens, features) is a sequence of sequences of
\* sequences of numbers.
RECURSIVE Concat(_)
Concat(seqs) == IF Len(seqs) = 0 THEN <<>> ELSE Head(seqs) \o Concat(Tail(seqs))

Min(a, b) == IF a < b THEN a ELSE b

\* Tensor.chunk(n) along the batch axis: pieces of ceil(len / n) entries.
Chunk(x, n) ==
    LET size == (Len(x) + n - 1) \div n
        count == (Len(x) + size - 1) \div size
    IN [k \in 1..count |-> SubSeq(x, (k - 1) * size + 1, Min(k * size, Len(x)))]

\* torch.cat(tensors, dim=1): along the token axis, entry by entry.
CatTokens(chunks) ==
    [b \in 1..Len(chunks[1]) |->
        Concat([k \in 1..Len(chunks) |-> chunks[k][b]])]

\* The image encoders and the image projector, as fixed functions: the base
\* encoder gives one pooled embedding per image, the grid encoder another;
\* the projector gives num_tokens tokens of MaxDim features.
ClipImageEncoder(image) == 2 * image + 1
GridImageEncoder(image) == 3 * image + 2
ImageProj(e, tokens) ==
    [t \in 1..tokens |-> [d \in 1..MaxDim |-> 100 * e + 10 * t + d]]

\* IPAdapter._compute_clip_image_embedding: (negative, conditional)
ComputeEmbeddingPair(images, fine, tokens) ==
    LET clip_embedding == [i \in 1..Len(images) |->
            IF fine THEN GridImageEncoder(images[i])
            ELSE ClipImageEncoder(images[i])]
        conditional == [i \in 1..Len(images) |-> ImageProj(clip_embedding[i], tokens)]
        negative == [i \in 1..Len(images) |->
            IF fine THEN ImageProj(GridImageEncoder(0), tokens)
            ELSE ImageProj(0, tokens)]
    IN <<negative, conditional>>

\* torch.zeros_like on a batch
ZerosLike(x) == [i \in 1..Len(x) |-> 0]

\* The selected image encoder on a batch of images.
ImageEncoder(fine, images) ==
    [i \in 1..Len(images) |->
        IF fine THEN GridImageEncoder(images[i]) ELSE ClipImageEncoder(images[i])]

\* Mutant: the encoder is run on the zero images in both modes.
EncoderRunsBothModes(images, fine) ==
    LET image_encoder == IF fine THEN "grid_image_encoder" ELSE "clip_image_encoder"
    IN <<[encoder |-> image_encoder, input |-> images],
         [encoder |-> image_encoder, input |-> ZerosLike(images)]>>

\* IPAdapter._compute_clip_image_embedding: the runs of the image encoder,
\* in order (line 517, and line 523 in fine-grained mode only).
EncoderRuns(images, fine) ==
    LET image_encoder == IF fine THEN "grid_image_encoder" ELSE "clip_image_encoder"
    IN <<[encoder |-> image_encoder, input |-> images]>>
       \o (IF ~fine THEN <<>>
           ELSE <<[encoder |-> image_encoder, input |-> ZerosLike(images)]>>)

\* IPAdapter._compute_clip_image_embedding: the inputs of the image
\* projector, in order (line 518, then line 520 or line 524).
ImageProjRuns(images, fine) ==
    LET clip_embedding == ImageEncoder(fine, images)
    IN <<clip_embedding,
         IF ~fine THEN ZerosLike(clip_embedding)
         ELSE ImageEncoder(fine, ZerosLike(images))>>

\* conditional_embedding *= tensor(weights).unsqueeze(-1).unsqueeze(-1)
ScaleByImage(x, weights) ==
    [i \in 1..Len(x) |-> [t \in 1..Len(x[i]) |->
        [d \in 1..Len(x[i][t]) |-> weights[i] * x[i][t][d]]]]

\* Mutant: all(weight != 1.0 ...) in place of any(...).
ApplyWeightsIfAll(conditional, p) ==
    IF p.weighted /\ \A i \in 1..Len(p.weights) : p.weights[i] # 1
    THEN ScaleByImage(conditional, p.weights)
    ELSE conditional

\* compute_clip_image_embedding, lines 498-505: per-image weighting of the
\* conditional embedding, skipped when every weight is 1.0.
ApplyWeights(conditional, p) ==
    IF p.weighted /\ \E i \in 1..Len(p.weights) : p.weights[i] # 1
    THEN ScaleByImage(conditional, p.weights)
    ELSE conditional

\* Mutant: the batch is folded along the token axis whatever concat_batches.
FoldAlways(x, p) ==
    IF Len(p.images) > 1 THEN CatTokens(Chunk(x, Len(p.images))) ELSE x

\* compute_clip_image_embedding, lines 507-511: a batch of several images
\* becomes one longer sequence of image tokens.
Fold(x, p) ==
    IF Len(p.images) > 1 /\ p.concat_batches
    THEN CatTokens(Chunk(x, Len(p.images)))
    ELSE x

\* compute_clip_image_embedding, line 513: torch.cat((negative, conditional))
CatBatch(negative, conditional) == negative \o conditional

\* IPAdapter.compute_clip_image_embedding on a batch tensor of images.
ComputeClipImageEmbedding(p, fine, tokens) ==
    LET pair == ComputeEmbeddingPair(p.images, fine, tokens)
    IN IF p.weighted /\ Len(p.weights) # Len(p.images)
       THEN [done |-> TRUE, ok |-> FALSE, value |-> <<>>]
       ELSE [done |-> TRUE, ok |-> TRUE,
             value |-> CatBatch(Fold(pair[1], p),
                                Fold(ApplyWeights(pair[2], p), p))]

Prompts ==
    LET Images == UNION {[1..n -> 0..MaxPixel] : n \in 1..MaxImages}
        Weights == UNION {[1..n -> 0..MaxWeight] : n \in 1..MaxImages}
    IN [images : Images, weighted : {FALSE}, weights : {<<>>},
        concat_batches : BOOLEAN]
       \cup [images : Images, weighted : {TRUE}, weights : Weights,
             concat_batches : BOOLEAN]

\* An adapter on a host with one cross-attention layer, about to be asked
\* for the embedding of an image prompt.
InitEmbed ==
    /\ layers = <<[kind |-> "Attention", nsdpa |-> 1]>>
    /\ sub_adapters = SubAdapterTargets(layers)
    /\ tree = InitialTree(layers, sub_adapters)
    /\ scale = [a \in 1..Len(sub_adapters) |-> 1]
    /\ injected = FALSE
    /\ context = Unset
    /\ published = Unset
    /\ last = Returned("init", TRUE, 0)
    /\ fine_grained \in BOOLEAN
    /\ num_tokens \in 1..MaxTokens
    /\ prompt \in Prompts
    /\ embedding = NoEmbedding
    /\ encoder_runs = <<>>
    /\ image_proj_runs = <<>>
    /\ Unloaded

Compute ==
    /\ ~embedding.done
    /\ embedding' = ComputeClipImageEmbedding(prompt, fine_grained, num_tokens)
    /\ encoder_runs' = EncoderRuns(prompt.images, fine_grained)
    /\ image_proj_runs' = ImageProjRuns(prompt.images, fine_grained)
    /\ UNCHANGED <<adapterVars, fine_grained, num_tokens, prompt, loadVars>>

NextEmbed == Compute

\* One call of compute_clip_image_embedding.
SpecEmbed == InitEmbed /\ [][NextEmbed]_vars

\* --------------------------------------------------------- weight bundle
MaxEntries == 4     \* entries of a weight bundle: 0..MaxEntries

\* A key of the bundle is a string, modelled as the sequence of its pieces:
\* "ip_adapter.001.to_k_ip.weight" is
\* <<"ip_adapter", ".", "0", "0", "1", ".", "to_k_ip.weight">>.
Digit(d) == <<"0", "1", "2", "3", "4", "5", "6", "7", "8", "9">>[d + 1]

RECURSIVE Digits(_)
Digits(i) == IF i < 10 THEN <<Digit(i)>> ELSE Digits(i \div 10) \o <<Digit(i % 10)>>

\* Mutant: f"{i}", without the zero padding.
FormatPlain(i) == Digits(i)

\* f"{i:03d}": decimal, zero-padded to at least three digits.
Format03d(i) ==
    LET d == Digits(i)
    IN IF Len(d) >= 3 THEN d ELSE [k \in 1..(3 - Len(d)) |-> "0"] \o d

\* prefix = f"ip_adapter.{i:03d}."
Prefix(i) == <<"ip_adapter", ".">> \o Format03d(i) \o <<".">>

\* str.startswith
StartsWith(k, prefix) ==
    Len(k) >= Len(prefix) /\ SubSeq(k, 1, Len(prefix)) = prefix

\* str.removeprefix
RemovePrefix(k, prefix) ==
    IF StartsWith(k, prefix) THEN SubSeq(k, Len(prefix) + 1, Len(k)) ELSE k

\* IPAdapter.__init__, lines 396-398: the image_proj. entries, prefix stripped.
ImageProjStateDict(items) ==
    LET prefix == <<"image_proj", ".">>
        found == SelectSeq(items, LAMBDA it : StartsWith(it.key, prefix))
    IN [k \in 1..Len(found) |->
            [key |-> RemovePrefix(found[k].key, prefix), tensor |-> found[k].tensor]]

\* IPAdapter.__init__, lines 402-407: the tensors under sub-adapter i's
\* prefix, in the order of the bundle.
CrossAttentionWeights(items, i) ==
    LET found == SelectSeq(items, LAMBDA it : StartsWith(it.key, Prefix(i)))
    IN [k \in 1..Len(found) |-> found[k].tensor]

\* CrossAttentionAdapter.load_weights(key_tensor, value_tensor); the move to
\* the target's device and dtype leaves the values as they are.
LoadWeights(proj, a, key_tensor, value_tensor) ==
    [proj EXCEPT ![a] = [key |-> key_tensor, value |-> value_tensor]]

\* IPAdapter.__init__, lines 401-410: the loop over enumerate(sub_adapters),
\* from sub-adapter a (index a - 1) on; the assertion ends it.
RECURSIVE LoadFrom(_, _, _)
LoadFrom(proj, items, a) ==
    IF a > Len(proj) THEN [ok |-> TRUE, projections |-> proj]
    ELSE LET cross_attention_weights == CrossAttentionWeights(items, a - 1)
         IN IF Len(cross_attention_weights) # 2
            THEN [ok |-> FALSE, projections |-> proj]
            ELSE LoadFrom(LoadWeights(proj, a, cross_attention_weights[1],
                                      cross_attention_weights[2]),
                          items, a + 1)

\* The keys a bundle is drawn from: the two projections of the first two
\* sub-adapters, an unpadded index, a third tensor under the first prefix,
\* and a tensor of the image projector.
KeyPool ==
    << <<"ip_adapter", ".", "0", "0", "0", ".", "to_k_ip.weight">>,
       <<"ip_adapter", ".", "0", "0", "0", ".", "to_v_ip.weight">>,
       <<"ip_adapter", ".", "0", "0", "1", ".", "to_k_ip.weight">>,
       <<"ip_adapter", ".", "0", "0", "1", ".", "to_v_ip.weight">>,
       <<"ip_adapter", ".", "1", ".", "to_k_ip.weight">>,
       <<"ip_adapter", ".", "0", "0", "0", ".", "to_out.weight">>,
       <<"image_proj", ".", "proj.weight">> >>

\* Every entry holds a tensor of its own, none equal to an initial weight.
Item(e) == [key |-> KeyPool[e], tensor |-> e]

\* A dict[str, Tensor]: entries in insertion order, no key twice; or None.
Bundles ==
    LET Orders == UNION {[1..n -> DOMAIN KeyPool] : n \in 0..MaxEntries}
        Distinct(s) == \A j \in DOMAIN s, k \in DOMAIN s : s[j] = s[k] => j = k
    IN {NoWeights} \cup
       {[given |-> TRUE, items |-> [k \in DOMAIN s |-> Item(s[k])]] :
            s \in {o \in Orders : Distinct(o)}}

LoadShapes == [kind : {"Attention", "SelfAttention"}, nsdpa : {1}]

\* IPAdapter.__init__ after the sub-adapters are built (line 393), called
\* with some weights argument.
InitLoad ==
    /\ Constructed(LoadShapes)
    /\ fine_grained = FALSE
    /\ num_tokens = 1
    /\ prompt = NoPrompt
    /\ embedding = NoEmbedding
    /\ encoder_runs = <<>>
    /\ image_proj_runs = <<>>
    /\ weight_bundle \in Bundles
    /\ projections = InitialProjections(sub_adapters)
    /\ image_proj_state = <<>>
    /\ built = "pending"

\* IPAdapter.__init__, lines 395-410.
LoadBundle ==
    /\ built = "pending"
    /\ IF ~weight_bundle.given
       THEN /\ built' = "ok"
            /\ UNCHANGED <<projections, image_proj_state>>
       ELSE LET r == LoadFrom(projections, weight_bundle.items, 1)
            IN /\ image_proj_state' = ImageProjStateDict(weight_bundle.items)
               /\ projections' = r.projections
               /\ built' = IF r.ok THEN "ok" ELSE "failed"
    /\ UNCHANGED <<adapterVars, embedVars, weight_bundle>>

NextLoad == LoadBundle

\* One construction of an IPAdapter with a weights argument.
SpecLoad == InitLoad /\ [][NextLoad]_vars

\* ================================================================ claims
Pristine == InitialTree(layers, sub_adapters)
AllAdapters == 1..Len(sub_adapters)
HostClasses(t) == {Walk(t, UNet)[k].cls : k \in 1..Len(Walk(t, UNet))}
TestArgs == {<<x, y, z>> : x \in 1..2, y \in 1..2, z \in 1..2}

\* C1: after IPAdapter.inject() followed by IPAdapter.eject(), every target
\* attention layer holds its original ScaledDotProductAttention instance at
\* its original position, the host network is the one built before the
\* injection, and no Sum and no ImageCrossAttention is reachable from it.
C1_RoundTrip ==
    (last.op = "eject" /\ last.ok) =>
        /\ tree = Pristine
        /\ \A i \in 1..Len(layers) : tree[Attn(i)] = AttentionChildren(layers, i)
        /\ tree[UNet] = [i \in 1..Len(layers) |-> Attn(i)]
        /\ HostClasses(tree) \cap {"Sum", "ImageCrossAttention"} = {}

C1_Witness ==
    /\ last.op = "eject" /\ last.ok
    /\ Len(sub_adapters) >= 2

\* C2: sub_adapters holds one adapter for each attention layer whose type is
\* not exactly SelfAttention (subclasses included), in traversal order, at
\* construction and after any inject, eject or scale set.
C2_SubAdapters ==
    /\ sub_adapters = SelectSeq([i \in 1..Len(layers) |-> i],
            LAMBDA i : layers[i].kind \in {"Attention", "SelfAttentionSubclass"})
    /\ SelectSeq(Layers(tree, UNet, "Attention"),
                 LAMBDA n : layers[n.idx].kind # "SelfAttention")
       = [a \in AllAdapters |-> Attn(sub_adapters[a])]
    /\ DOMAIN scale = AllAdapters

C2_Witness ==
    /\ last.op = "set_scale"
    /\ injected
    /\ \E i \in 1..Len(layers) : layers[i].kind = "SelfAttentionSubclass"
    /\ \E i \in 1..Len(layers) : layers[i].kind = "SelfAttention"

ScaleSync == \A a \in AllAdapters, b \in AllAdapters : scale[a] = scale[b]

\* C3 as stated: a scale set writes every sub-adapter, a following read
\* returns the value set, and every read returns the scale all sub-adapters
\* share.
C3_ScaleBroadcast ==
    [][/\ ScaleSync /\ ScaleSync'
       /\ last'.op = "set_scale" => \A a \in AllAdapters : scale'[a] = last'.arg
       /\ (last.op = "set_scale" /\ last'.op = "get_scale") =>
              (last'.ok /\ last'.arg = last.arg)
       /\ last'.op = "get_scale" =>
              (last'.ok /\ \A a \in AllAdapters : scale'[a] = last'.arg)]_vars

\* C3, amended: the same, where a read is concerned only for an adapter that
\* has at least one sub-adapter; with none the read raises.
C3_ScaleBroadcastNonEmpty ==
    [][/\ ScaleSync /\ ScaleSync'
       /\ last'.op = "set_scale" => \A a \in AllAdapters : scale'[a] = last'.arg
       /\ (last.op = "set_scale" /\ last'.op = "get_scale" /\ AllAdapters # {}) =>
              (last'.ok /\ last'.arg = last.arg)
       /\ (last'.op = "get_scale" /\ AllAdapters # {}) =>
              (last'.ok /\ \A a \in AllAdapters : scale'[a] = last'.arg)
       /\ (last'.op = "get_scale" /\ AllAdapters = {}) => ~last'.ok]_vars

C3_Witness ==
    /\ last.op = "get_scale" /\ last.ok
    /\ Len(sub_adapters) >= 2
    /\ injected

\* C4: with every scale 0 and a conditioning value published, a run of the
\* injected network returns what the un-injected network returns, and every
\* injected Sum node returns what its original ScaledDotProductAttention
\* returns alone; a scale set leaves the structure as it is.
C4_StateZeroScale ==
    (context # Unset /\ \A a \in AllAdapters : scale[a] = 0) =>
        /\ last.op = "run" =>
              last.out = HostForward(Pristine, last.q, last.c, scale, context)
        /\ \A a \in InjectedAdapters(tree, sub_adapters), args \in TestArgs :
              Forward(tree, Sum(a), args, scale, context)
              = Forward(tree, tree[Sum(a)][1], args, scale, context)

C4_ZeroScale ==
    /\ []C4_StateZeroScale
    /\ [][last'.op = "set_scale" => tree' = tree]_vars

C4_Witness ==
    /\ last.op = "run" /\ last.ok
    /\ context # Unset
    /\ InjectedAdapters(tree, sub_adapters) # {}
    /\ \A a \in AllAdapters : scale[a] = 0

\* ---- compute_clip_image_embedding
BatchSize == Len(prompt.images)
Folded == BatchSize > 1 /\ prompt.concat_batches
WeightOf(i) == IF prompt.weighted THEN prompt.weights[i] ELSE 1
Encoded(image) ==
    IF fine_grained THEN GridImageEncoder(image) ELSE ClipImageEncoder(image)
BlankEncoded == IF fine_grained THEN GridImageEncoder(0) ELSE 0

\* Image i's slice of the negative half and of the conditional half of a
\* returned tensor v.
NegativeSlice(v, i) ==
    IF Folded THEN SubSeq(v[1], (i - 1) * num_tokens + 1, i * num_tokens)
    ELSE v[i]
ConditionalSlice(v, i) ==
    IF Folded THEN SubSeq(v[2], (i - 1) * num_tokens + 1, i * num_tokens)
    ELSE v[BatchSize + i]

RECURSIVE SumLens(_)
SumLens(seqs) == IF Len(seqs) = 0 THEN 0 ELSE Len(Head(seqs)) + SumLens(Tail(seqs))
ElementCount(v) == SumLens(Concat(v))

Times(w, tokens) ==
    [t \in 1..Len(tokens) |-> [d \in 1..Len(tokens[t]) |-> w * tokens[t][d]]]

\* C5: the result is [negative, conditional] along the batch axis.  Several
\* images with concat_batches give 2 entries of N*T tokens, image i's tokens
\* at positions (i-1)*T+1 .. i*T in image order; otherwise 2*N entries of T
\* tokens, N negative ones then N conditional ones; 2*N*T*D elements.
C5_Layout ==
    (embedding.done /\ embedding.ok) =>
        LET v == embedding.value
        IN /\ Len(v) = IF Folded THEN 2 ELSE 2 * BatchSize
           /\ \A b \in 1..Len(v) :
                 Len(v[b]) = IF Folded THEN BatchSize * num_tokens ELSE num_tokens
           /\ \A i \in 1..BatchSize :
                 /\ NegativeSlice(v, i) = ImageProj(BlankEncoded, num_tokens)
                 /\ ConditionalSlice(v, i)
                    = Times(WeightOf(i), ImageProj(Encoded(prompt.images[i]), num_tokens))
           /\ ElementCount(v) = 2 * BatchSize * num_tokens * MaxDim

C5_Witness ==
    /\ embedding.done /\ embedding.ok
    /\ Folded
    /\ num_tokens >= 2
    /\ prompt.images[1] # prompt.images[2]

\* C6: with as many weights as images, image i's conditional slice is
\* weights[i] times its slice with weights=None and the negative half is
\* the one with weights=None; with another number of weights the call fails
\* and returns nothing.
C6_Weights ==
    embedding.done =>
        IF prompt.weighted /\ Len(prompt.weights) # BatchSize
        THEN ~embedding.ok /\ embedding.value = <<>>
        ELSE LET unweighted == ComputeClipImageEmbedding(
                     [prompt EXCEPT !.weighted = FALSE, !.weights = <<>>],
                     fine_grained, num_tokens).value
             IN /\ embedding.ok
                /\ \A i \in 1..BatchSize :
                      /\ ConditionalSlice(embedding.value, i)
                         = Times(WeightOf(i), ConditionalSlice(unweighted, i))
                      /\ NegativeSlice(embedding.value, i)
                         = NegativeSlice(unweighted, i)

C6_Witness ==
    /\ embedding.done /\ embedding.ok
    /\ prompt.weighted
    /\ BatchSize >= 2
    /\ prompt.weights[1] = 2 /\ prompt.weights[2] = 1

\* ---- side channel
\* C7: the side-channel slot always holds the tensor most recently passed to
\* set_clip_image_embedding (no run, inject, eject or scale set changes or
\* clears it), and in a run every injected ImageCrossAttention reads that
\* tensor in its key branch and in its value branch.
C7_Conditioning ==
    /\ context = published
    /\ last.op = "run" =>
         LET reads == IF InjectedAdapters(tree, sub_adapters) = {}
                      THEN {} ELSE {published}
         IN last.kreads = reads /\ last.vreads = reads

C7_Witness ==
    /\ last.op = "run" /\ last.ok
    /\ published # Unset
    /\ InjectedAdapters(tree, sub_adapters) = AllAdapters
    /\ Len(sub_adapters) >= 2

\* C10 as stated: after IPAdapter.inject() either every sub-adapter is
\* injected, or the call failed and no sub-adapter is injected.
C10_AllOrNothing ==
    last.op = "inject" =>
        \/ InjectedAdapters(tree, sub_adapters) = AllAdapters
        \/ ~last.ok /\ InjectedAdapters(tree, sub_adapters) = {}

\* C8: a successful CrossAttentionAdapter.inject() puts, at the position of
\* the target's ScaledDotProductAttention, a Sum whose children are that
\* instance and the adapter's ImageCrossAttention, in that order; every
\* other child of the target keeps its instance and position; the Sum feeds
\* both children the inputs it receives.
C8_SumInPlace ==
    [][(last'.op = "sub_inject" /\ last'.ok) =>
        LET a == last'.arg
            target == Attn(sub_adapters[a])
        IN /\ Len(tree'[target]) = Len(tree[target])
           /\ \E k \in 1..Len(tree[target]) :
                  tree[target][k].cls = "ScaledDotProductAttention"
           /\ \A k \in 1..Len(tree[target]) :
                  IF tree[target][k].cls = "ScaledDotProductAttention"
                  THEN /\ tree'[target][k] = Sum(a)
                       /\ tree'[Sum(a)] = <<tree[target][k], ICA(a)>>
                  ELSE tree'[target][k] = tree[target][k]
           /\ tree'[ICA(a)] = tree[ICA(a)]
           /\ \A args \in TestArgs :
                  Forward(tree', Sum(a), args, scale', 0)
                  = <<Forward(tree', tree'[Sum(a)][1], args, scale', 0)[1]
                      + Forward(tree', ICA(a), args, scale', 0)[1]>>]_vars

C8_Witness ==
    /\ last.op = "sub_inject" /\ last.ok
    /\ Len(sub_adapters) >= 2

\* C9: CrossAttentionAdapter.inject() succeeds when its target holds exactly
\* one ScaledDotProductAttention; when it holds none or more than one the
\* call fails and the structure is left as it was.
C9_ExactlyOne ==
    [][last'.op = "sub_inject" =>
        LET target == Attn(sub_adapters[last'.arg])
            n == Len(Layers(tree, target, "ScaledDotProductAttention"))
        IN /\ n # 1 => (~last'.ok /\ tree' = tree)
           /\ n = 1 => last'.ok]_vars

C9_Witness ==
    /\ last.op = "sub_inject" /\ ~last.ok
    /\ layers[sub_adapters[last.arg]].nsdpa # 1
    /\ tree = Pristine

\* The tensors of the bundle stored under "ip_adapter." + (a - 1) written
\* with three digits + ".", in bundle order (a - 1 below ten).
UnderPrefix(a) ==
    LET found == SelectSeq(weight_bundle.items, LAMBDA it :
            /\ Len(it.key) >= 6
            /\ SubSeq(it.key, 1, 6) = <<"ip_adapter", ".", "0", "0", Digit(a - 1), ".">>)
    IN [k \in 1..Len(found) |-> found[k].tensor]

\* C11: when a weight bundle is given to the constructor, construction
\* succeeds exactly when every sub-adapter has exactly two tensors under
\* its prefix "ip_adapter.{i:03d}."; every sub-adapter the loop reaches with
\* exactly two has the first (in bundle order) as its image-key projection
\* weight and the second as its image-value projection weight.
C11_WeightLoading ==
    (built # "pending" /\ weight_bundle.given) =>
        /\ built = "ok" <=> \A a \in AllAdapters : Len(UnderPrefix(a)) = 2
        /\ built = "failed" <=> \E a \in AllAdapters : Len(UnderPrefix(a)) # 2
        /\ \A a \in AllAdapters :
              (\A b \in 1..a : Len(UnderPrefix(b)) = 2) =>
                  projections[a] = [key |-> UnderPrefix(a)[1],
                                    value |-> UnderPrefix(a)[2]]

\* Two sub-adapters loaded from a bundle that lists the first one's
\* "to_v_ip" tensor before its "to_k_ip" tensor.
C11_Witness ==
    /\ built = "ok"
    /\ weight_bundle.given
    /\ Len(sub_adapters) = 2
    /\ projections[1] = [key |-> 2, value |-> 1]
    /\ projections[2].key # InitialWeight

SelectedEncoder == IF fine_grained THEN "grid_image_encoder" ELSE "clip_image_encoder"
BlankImages == [i \in 1..BatchSize |-> 0]
EncodedBatch(images) == [i \in 1..Len(images) |-> Encoded(images[i])]

\* C12: in every call of compute_clip_image_embedding, in either mode, the
\* selected image encoder is run once on the real images and once on an
\* all-zero tensor shaped like the image batch, and the two encoder outputs
\* are what the image projector is run on.
C12_EncoderTwice ==
    embedding.done =>
        /\ encoder_runs = <<[encoder |-> SelectedEncoder, input |-> prompt.images],
                            [encoder |-> SelectedEncoder, input |-> BlankImages]>>
        /\ image_proj_runs = <<EncodedBatch(prompt.images), EncodedBatch(BlankImages)>>

\* C12, as the code has it: the selected encoder is run on the real images
\* and its output projected, in either mode; in fine-grained mode the grid
\* encoder is run a second time, on the all-zero images, and that output is
\* projected; in non-fine-grained mode the base encoder is not run again,
\* and the projector is run on an all-zero tensor shaped like the encoder's
\* output.
C12_EncoderRunsByMode ==
    embedding.done =>
        /\ encoder_runs[1] = [encoder |-> SelectedEncoder, input |-> prompt.images]
        /\ Len(image_proj_runs) = 2
        /\ image_proj_runs[1] = EncodedBatch(prompt.images)
        /\ fine_grained =>
              /\ Len(encoder_runs) = 2
              /\ encoder_runs[2] = [encoder |-> SelectedEncoder, input |-> BlankImages]
              /\ image_proj_runs[2] = EncodedBatch(BlankImages)
        /\ ~fine_grained =>
              /\ Len(encoder_runs) = 1
              /\ image_proj_runs[2] = [i \in 1..BatchSize |-> 0]

\* A call in non-fine-grained mode on two images, one of them not blank.
C12_Witness ==
    /\ embedding.done
    /\ ~fine_grained
    /\ BatchSize = 2
    /\ prompt.images[2] # 0
    /\ Len(encoder_runs) = 1

====
